---- MODULE Spec2Model ----
(***************************************************************************)
(* GPIO button driver with multi-press LED control (button driver of the   *)
(* gpio_driver module): debounce in the interrupt handler, a retriggerable *)
(* press timer, a work item that maps the press count to an LED state, and *)
(* the character device's read and write commands.                         *)
(*                                                                         *)
(* Execution contexts: the hard interrupt handler (never re-entered), the  *)
(* timer callback (softirq), the work handler (workqueue thread) and the   *)
(* file operations (process context).  The driver takes no lock, so the    *)
(* contexts interleave at the granularity of their accesses to the shared  *)
(* variables.  The tick counter does not advance while the hard interrupt  *)
(* handler is between its entry and its return.                            *)
(*                                                                         *)
(* Two more drivers of the repository are modelled next to it: the LED     *)
(* driver (led_driver.c), which owns the three LED lines and hands them to *)
(* the button driver through led_get_gpio, and the single-LED toggle       *)
(* driver (gpio_driver_2.c).                                               *)
(***************************************************************************)
EXTENDS Integers, Naturals, Sequences, FiniteSets, TLC

(* ------------------------------ bounds --------------------------------- *)

\* width of the tick counter (unsigned long jiffies) in the model
JiffiesBits == 6

\* tick rate of the model's kernel (ticks per second); the driver's two delays are
\* converted from milliseconds with it, as msecs_to_jiffies does
HZ == 25

\* presses accepted in one behaviour
MaxPresses == 6

\* reset commands issued in one behaviour
MaxResets == 1

\* a reset command is issued after at most this many accepted presses
MaxPressesBeforeReset == 3

\* calls of button_write in one behaviour
MaxWrites == 2

\* calls of button_read in one behaviour
MaxQueries == 2

\* accepted presses in one behaviour under fair scheduling
MaxFairPresses == 5

\* a query is issued after at most this many accepted presses
MaxPressesBeforeQuery == 2

(* ------------------------- program constants --------------------------- *)

DEBOUNCE_TIME_MS == 50

MULTI_PRESS_TIMEOUT_MS == 1000

NUM_LEDS == 3

MAX_PRESSES == 5

(* ------------------------------ helpers -------------------------------- *)

Wrap == 2 ^ JiffiesBits

\* unsigned long arithmetic
UAdd(a, b) == (a + b) % Wrap

USub(a, b) == (a - b + Wrap) % Wrap

\* (long) x of an unsigned long x
AsSigned(x) == IF x >= Wrap \div 2 THEN x - Wrap ELSE x

\* time_before(a, b): (long)((a) - (b)) < 0
TimeBefore(a, b) == AsSigned(USub(a, b)) < 0

\* msecs_to_jiffies(m): the number of ticks covering m milliseconds
MsecsToJiffies(m) == (m * HZ + 999) \div 1000

DebounceJiffies == MsecsToJiffies(DEBOUNCE_TIME_MS)

TimeoutJiffies == MsecsToJiffies(MULTI_PRESS_TIMEOUT_MS)

Leds == 0 .. (NUM_LEDS - 1)

\* raw event times (ms since start) of the end-to-end scenario
ScenarioTimes == <<0, 200, 400>>

\* a silence of half the range of the tick counter, and a debounce window more
LongSilence == Wrap \div 2 + DebounceJiffies

\* the clock is observed at these numbers of ticks after the last accepted event
\* (after the start while none is accepted): just inside the debounce window, at its
\* end, at the scenario's spacing and at the press timeout
Instants ==
    {DebounceJiffies - 1, DebounceJiffies, TimeoutJiffies}
    \cup {MsecsToJiffies(ScenarioTimes[2] - ScenarioTimes[1])}

\* the instants observed while a timer callback or a dispatch is under way: these
\* last less than the press timeout, and long enough for the next press to be accepted
BusyInstants == {DebounceJiffies}

\* the tick values the driver may be started at: 0, a value of the lower half of
\* the counter's range, and one of the upper half (a 32-bit kernel starts its
\* counter 5 minutes before the wrap)
InitialJiffies == {0, DebounceJiffies, Wrap - DebounceJiffies}

\* what button_read returns when it copies no message: the return value, and no
\* pressed flag, count or LED status
NoMessage(ret) == <<ret, FALSE, 0, "">>

VARIABLES
    jiffies,            \* kernel tick counter
    last_irq_time,      \* static local of button_irq_handler
    press_count,
    button_pressed,
    current_led_state,
    led_gpios,          \* the LED indices whose descriptor is not NULL
    led_value,          \* level last written to each LED line
    timer_pending,      \* press_timer is armed
    timer_expires,
    work_pending,       \* button_work is queued and has not started
    irq_pc, irq_tmp,    \* interrupt handler: position, register of press_count++
    tmr_pc,             \* timer callback: position
    wk_pc, wk_n, wk_i,  \* work handler: position, switch value, loop index
    wr_pc, wr_i,        \* button_write 'r': position, loop index
    wr_ret, rd_ret,     \* what the latest button_write / button_read returned
    rm_pc,              \* button_remove: position
    rd_pc,              \* button_read: position
    pb_pc,              \* button_probe: position
    \* history, not read by the driver
    elapsed,            \* ticks since the last accepted event (since start if none)
    accepted,           \* TRUE once an event has been accepted
    verdict,            \* what the handler did with the latest raw event
    fast,               \* every accepted press came less than the timeout after the one before
    reset_seen,         \* TRUE once a reset command has been issued
    presses,            \* presses accepted so far
    owed,               \* of those, the presses no run of the worker has processed
    runs,               \* runs of the work handler so far
    completed,          \* press_count at the latest gesture completion
    track, t_acc,       \* progress of the raw events along ScenarioTimes
    done_by,            \* how the gesture completed ("cap", or "timeout" with no press being
                        \* handled), "none" from the next accepted press on
    resets,             \* reset commands issued so far
    wr_base,            \* during a reset command: the presses whose handler had returned at its call
    wr_alone,           \* during a reset command: no run of the work handler since its call
    rs_case,            \* after a reset command, until the next accepted press: how it was issued
    ap_n, once,         \* the count being applied twice, and the LED state and lines after once
    sched_calls,        \* schedule_work calls since button_work last left the queue
    pressed_since,      \* a press was accepted since the latest successful query formatted its message
    queries, rd_arg,    \* button_read calls so far, and what the latest one was given
    writes, wr_arg,     \* button_write calls so far, and what the latest one was given
    \* LED driver (led_driver.c), which owns the three LED lines
    led_state,          \* the status it records for each LED
    ld_pc,              \* led_write / led_ioctl: position
    ld_i, ld_cmd,       \* the LED of the open file, and the command being executed
    ld_calls,           \* history: commands given to the LED driver so far
    \* single-LED toggle driver (gpio_driver_2.c)
    g2_led_state,       \* its led_state
    g2_led_gpio,        \* level last written to its LED line
    last_interrupt_time, \* static local of its button_irq_handler
    g2_irq_pc, g2_irq_tmp,  \* its interrupt handler: position, register of led_state = !led_state
    g2_cmd_pc, g2_cmd, g2_cmd_tmp  \* its gpio_write / gpio_ioctl: position, command, register

progVars == <<jiffies, last_irq_time, press_count, button_pressed, current_led_state,
              led_gpios, led_value, timer_pending, timer_expires, work_pending,
              irq_pc, irq_tmp, tmr_pc, wk_pc, wk_n, wk_i, wr_pc, wr_i, wr_ret, rd_ret,
              rm_pc, rd_pc, pb_pc>>

auxVars == <<done_by, resets, wr_base, wr_alone, rs_case, ap_n, once>>

fileHist == <<pressed_since, queries, rd_arg, writes, wr_arg>>

histVars == <<elapsed, accepted, verdict, fast, reset_seen, presses, owed, runs,
              completed, track, t_acc, auxVars, sched_calls, fileHist>>

ledDrvVars == <<led_state, ld_pc, ld_i, ld_cmd, ld_calls>>

gpio2Vars == <<g2_led_state, g2_led_gpio, last_interrupt_time, g2_irq_pc, g2_irq_tmp,
               g2_cmd_pc, g2_cmd, g2_cmd_tmp>>

otherVars == <<ledDrvVars, gpio2Vars>>

vars == <<progVars, histVars, otherVars>>

\* the LED driver and the single-LED toggle driver after their probe: every LED off
OtherInit ==
    /\ led_state = [i \in 0 .. (NUM_LEDS - 1) |-> FALSE]
    /\ ld_pc = "idle" /\ ld_i = 0 /\ ld_cmd = "none"
    /\ ld_calls = 0
    /\ g2_led_state = FALSE
    /\ g2_led_gpio = FALSE
    /\ last_interrupt_time = 0
    /\ g2_irq_pc = "idle" /\ g2_irq_tmp = FALSE
    /\ g2_cmd_pc = "idle" /\ g2_cmd = "none" /\ g2_cmd_tmp = FALSE

\* nothing armed, queued or executing
Quiescent ==
    /\ ~timer_pending
    /\ ~work_pending
    /\ irq_pc = "idle" /\ tmr_pc = "idle" /\ wk_pc = "idle" /\ wr_pc = "idle"

Init ==
    /\ jiffies \in InitialJiffies
    /\ last_irq_time = 0
    /\ press_count = 0
    /\ button_pressed = FALSE
    /\ current_led_state = 0
    /\ led_gpios = Leds
    /\ led_value = [i \in Leds |-> FALSE]
    /\ timer_pending = FALSE
    /\ timer_expires = 0
    /\ work_pending = FALSE
    /\ irq_pc = "idle" /\ irq_tmp = 0
    /\ tmr_pc = "idle"
    /\ wk_pc = "idle" /\ wk_n = 0 /\ wk_i = 0
    /\ wr_pc = "idle" /\ wr_i = 0
    /\ wr_ret = "none" /\ rd_ret = NoMessage("none")
    /\ rd_pc = "idle"
    /\ pb_pc = "done"
    /\ rm_pc = "idle"
    /\ elapsed = 0
    /\ accepted = FALSE
    /\ verdict = "none"
    /\ fast = TRUE
    /\ reset_seen = FALSE
    /\ presses = 0
    /\ owed = 0
    /\ runs = 0
    /\ completed = 0
    /\ track = 0
    /\ t_acc = 0
    /\ done_by = "none"
    /\ resets = 0
    /\ wr_base = 0
    /\ wr_alone = FALSE
    /\ rs_case = "none"
    /\ ap_n = 0
    /\ once = <<>>
    /\ sched_calls = 0
    /\ pressed_since = FALSE
    /\ queries = 0 /\ rd_arg = <<>>
    /\ writes = 0 /\ wr_arg = <<>>
    /\ OtherInit

irqVars == <<irq_pc, irq_tmp>>

timerVars == <<timer_pending, timer_expires>>

wkVars == <<wk_pc, wk_n, wk_i>>

wrVars == <<wr_pc, wr_i, wr_ret>>

ledVars == <<current_led_state, led_gpios, led_value>>

cycVars == <<presses, owed, runs>>

trackVars == <<track, t_acc>>

(* ------------------------------- clock --------------------------------- *)

\* no timer callback and no dispatch is under way
Calm == ~work_pending /\ tmr_pc = "idle" /\ wk_pc = "idle"

\* the instants the clock may advance to: a long silence passes only while the
\* timer is not armed and nothing is under way
NextInstants ==
    IF ~Calm THEN BusyInstants
    ELSE IF timer_pending THEN Instants
    ELSE Instants \cup {LongSilence}

\* the tick counter advances to the next instant, or to a later one
Tick ==
    /\ irq_pc = "idle"
    /\ \E e \in NextInstants :
          /\ e > elapsed
          /\ jiffies' = UAdd(jiffies, e - elapsed)
          /\ elapsed' = e
    /\ UNCHANGED <<last_irq_time, press_count, button_pressed, ledVars, timerVars,
                   work_pending, irqVars, tmr_pc, wkVars, wrVars, rd_ret>>
    /\ UNCHANGED <<accepted, verdict, fast, reset_seen, cycVars, completed, trackVars>>
    /\ UNCHANGED <<rm_pc, rd_pc, pb_pc>>
    /\ UNCHANGED <<auxVars, sched_calls, fileHist>>
    /\ UNCHANGED otherVars

(* ------------------------ button_irq_handler --------------------------- *)

\* button_probe has called devm_request_irq and has not failed since
IrqRegistered == pb_pc \in {"timer_setup", "init_work", "cdev", "off", "done"}

\* button_probe has executed timer_setup(&press_timer, ...)
TimerInitialized == pb_pc \in {"init_work", "cdev", "off", "done", "failed"}

\* button_probe has executed INIT_WORK(&button_work, ...)
WorkInitialized == pb_pc \in {"cdev", "off", "done", "failed"}

\* the debounce test of button_irq_handler: TRUE when the event is dropped
DebounceRejectsShort(current_time, last) ==
    TimeBefore(current_time, UAdd(last, DebounceJiffies - 1))

DebounceRejects(current_time, last) ==
    TimeBefore(current_time, UAdd(last, DebounceJiffies))

\* the raw events so far follow ScenarioTimes and this one is the next of them
OnTrack ==
    /\ track < Len(ScenarioTimes)
    /\ t_acc + elapsed = MsecsToJiffies(ScenarioTimes[track + 1])

\* a raw edge inside the debounce window: the handler returns at once
IrqReject ==
    /\ rm_pc # "released"
    /\ IrqRegistered
    /\ irq_pc = "idle"
    /\ DebounceRejects(jiffies, last_irq_time)
    /\ verdict' = "rejected"
    /\ track' = IF OnTrack THEN track + 1 ELSE Len(ScenarioTimes) + 1
    /\ t_acc' = IF OnTrack THEN t_acc ELSE 0
    /\ UNCHANGED progVars
    /\ UNCHANGED <<elapsed, accepted, fast, reset_seen, cycVars, completed>>
    /\ UNCHANGED <<auxVars, sched_calls, fileHist>>
    /\ UNCHANGED otherVars

\* a raw edge outside the window: last_irq_time and button_pressed are set, and
\* press_count is loaded for press_count++
IrqAccept ==
    /\ rm_pc # "released"
    /\ IrqRegistered
    /\ irq_pc = "idle"
    /\ ~DebounceRejects(jiffies, last_irq_time)
    /\ presses < MaxPresses
    /\ last_irq_time' = jiffies
    /\ button_pressed' = TRUE
    /\ irq_tmp' = press_count
    /\ irq_pc' = "store"
    /\ accepted' = TRUE
    /\ verdict' = "accepted"
    /\ fast' = (fast /\ (accepted => elapsed < TimeoutJiffies))
    /\ elapsed' = 0
    /\ track' = IF OnTrack THEN track + 1 ELSE Len(ScenarioTimes) + 1
    /\ t_acc' = IF OnTrack THEN t_acc + elapsed ELSE 0
    /\ presses' = presses + 1
    /\ owed' = owed + 1
    /\ runs' = runs
    /\ UNCHANGED <<jiffies, press_count, ledVars, timerVars, work_pending,
                   tmr_pc, wkVars, wrVars, rd_ret>>
    /\ done_by' = "none"
    /\ rs_case' = "none"
    /\ UNCHANGED <<reset_seen, completed, resets, wr_base, wr_alone, ap_n, once>>
    /\ pressed_since' = TRUE
    /\ UNCHANGED <<sched_calls, queries, rd_arg, writes, wr_arg>>
    /\ UNCHANGED <<rm_pc, rd_pc, pb_pc>>
    /\ UNCHANGED otherVars

\* press_count++ : the store of the incremented value
IrqStore ==
    /\ irq_pc = "store"
    /\ press_count' = irq_tmp + 1
    /\ irq_tmp' = 0
    /\ irq_pc' = "mod_timer"
    /\ UNCHANGED <<jiffies, last_irq_time, button_pressed, ledVars, timerVars,
                   work_pending, tmr_pc, wkVars, wrVars, rd_ret>>
    /\ UNCHANGED histVars
    /\ UNCHANGED <<rm_pc, rd_pc, pb_pc>>
    /\ UNCHANGED otherVars

\* mod_timer(&press_timer, jiffies + msecs_to_jiffies(MULTI_PRESS_TIMEOUT_MS))
IrqModTimer ==
    /\ irq_pc = "mod_timer"
    /\ IF TimerInitialized
          THEN /\ timer_pending' = TRUE
               /\ timer_expires' = UAdd(jiffies, TimeoutJiffies)
               /\ irq_pc' = "check"
          ELSE \* press_timer is still all zeroes, its function is NULL: depending
               \* on the kernel, mod_timer returns without arming it or stops the
               \* kernel with BUG
               /\ UNCHANGED timerVars
               /\ irq_pc' \in {"check", "bug"}
    /\ UNCHANGED <<jiffies, last_irq_time, press_count, button_pressed, ledVars,
                   work_pending, irq_tmp, tmr_pc, wkVars, wrVars, rd_ret>>
    /\ UNCHANGED histVars
    /\ UNCHANGED <<rm_pc, rd_pc, pb_pc>>
    /\ UNCHANGED otherVars

\* the cap test of button_irq_handler
CapReachedOff(n) == n > MAX_PRESSES

CapReached(n) == n >= MAX_PRESSES

\* if (press_count >= 5)
IrqCheck ==
    /\ irq_pc = "check"
    /\ irq_pc' = IF CapReached(press_count) THEN "del_timer" ELSE "idle"
    /\ completed' = IF CapReached(press_count) THEN press_count ELSE completed
    /\ done_by' = IF CapReached(press_count) THEN "cap" ELSE done_by
    /\ UNCHANGED <<resets, wr_base, wr_alone, rs_case, ap_n, once, sched_calls, fileHist>>
    /\ UNCHANGED <<jiffies, last_irq_time, press_count, button_pressed, ledVars,
                   timerVars, work_pending, irq_tmp, tmr_pc, wkVars, wrVars, rd_ret>>
    /\ UNCHANGED <<elapsed, accepted, verdict, fast, reset_seen, cycVars, trackVars>>
    /\ UNCHANGED <<rm_pc, rd_pc, pb_pc>>
    /\ UNCHANGED otherVars

\* del_timer(&press_timer)
IrqDelTimer ==
    /\ irq_pc = "del_timer"
    /\ timer_pending' = FALSE
    /\ irq_pc' = "schedule"
    /\ UNCHANGED <<jiffies, last_irq_time, press_count, button_pressed, ledVars,
                   timer_expires, work_pending, irq_tmp, tmr_pc, wkVars, wrVars, rd_ret>>
    /\ UNCHANGED histVars
    /\ UNCHANGED <<rm_pc, rd_pc, pb_pc>>
    /\ UNCHANGED otherVars

\* schedule_work(&button_work), then return IRQ_HANDLED
\* schedule_work(&button_work): queues the work item unless it is already queued and
\* has not started; the value is whether it is queued afterwards
ScheduleWorkToggle(pending) == ~pending

ScheduleWork(pending) == TRUE

IrqSchedule ==
    /\ irq_pc = "schedule"
    /\ work_pending' = ScheduleWork(work_pending)
    /\ irq_pc' = "idle"
    /\ UNCHANGED <<jiffies, last_irq_time, press_count, button_pressed, ledVars,
                   timerVars, irq_tmp, tmr_pc, wkVars, wrVars, rd_ret>>
    /\ sched_calls' = sched_calls + 1
    /\ UNCHANGED <<elapsed, accepted, verdict, fast, reset_seen, cycVars, completed,
                   trackVars, auxVars, fileHist>>
    /\ UNCHANGED <<rm_pc, rd_pc, pb_pc>>
    /\ UNCHANGED otherVars

(* ----------------------- press_timer_callback -------------------------- *)

\* the timer softirq detaches the expired timer and calls press_timer_callback
TimerFire ==
    /\ timer_pending
    /\ tmr_pc = "idle"
    /\ ~TimeBefore(jiffies, timer_expires)
    /\ timer_pending' = FALSE
    /\ tmr_pc' = "check"
    /\ UNCHANGED <<jiffies, last_irq_time, press_count, button_pressed, ledVars,
                   timer_expires, work_pending, irqVars, wkVars, wrVars, rd_ret>>
    /\ UNCHANGED histVars
    /\ UNCHANGED <<rm_pc, rd_pc, pb_pc>>
    /\ UNCHANGED otherVars

\* the test of press_timer_callback
TimeoutCompletesOffByOne(n) == n > 1

TimeoutCompletesAtZero(n) == n >= 0

TimeoutCompletes(n) == n > 0

\* if (press_count > 0)
TmrCheck ==
    /\ tmr_pc = "check"
    /\ tmr_pc' = IF TimeoutCompletes(press_count) THEN "schedule" ELSE "idle"
    /\ completed' = IF TimeoutCompletes(press_count) THEN press_count ELSE completed
    /\ done_by' = IF TimeoutCompletes(press_count) /\ done_by = "none" /\ irq_pc = "idle"
                      THEN "timeout" ELSE done_by
    /\ UNCHANGED <<resets, wr_base, wr_alone, rs_case, ap_n, once, sched_calls, fileHist>>
    /\ UNCHANGED <<jiffies, last_irq_time, press_count, button_pressed, ledVars,
                   timerVars, work_pending, irqVars, wkVars, wrVars, rd_ret>>
    /\ UNCHANGED <<elapsed, accepted, verdict, fast, reset_seen, cycVars, trackVars>>
    /\ UNCHANGED <<rm_pc, rd_pc, pb_pc>>
    /\ UNCHANGED otherVars

\* schedule_work(&button_work)
TmrSchedule ==
    /\ tmr_pc = "schedule"
    /\ work_pending' = ScheduleWork(work_pending)
    /\ tmr_pc' = "idle"
    /\ UNCHANGED <<jiffies, last_irq_time, press_count, button_pressed, ledVars,
                   timerVars, irqVars, wkVars, wrVars, rd_ret>>
    /\ sched_calls' = sched_calls + 1
    /\ UNCHANGED <<elapsed, accepted, verdict, fast, reset_seen, cycVars, completed,
                   trackVars, auxVars, fileHist>>
    /\ UNCHANGED <<rm_pc, rd_pc, pb_pc>>
    /\ UNCHANGED otherVars

(* ------------------------ button_work_handler -------------------------- *)

\* the switch of button_work_handler: the value given to current_led_state
LedStateForFive(n) == IF n \in 1 .. 5 THEN n ELSE 0

LedStateFor(n) ==
    CASE n = 1 -> 1
      [] n = 2 -> 2
      [] n = 3 -> 3
      [] n = 4 -> 4
      [] OTHER -> 0

\* if (led_gpios[i]) gpiod_set_value(led_gpios[i], v)
SetLedToggle(lv, i, v) == IF i \in led_gpios THEN [lv EXCEPT ![i] = ~lv[i]] ELSE lv

SetLed(lv, i, v) == IF i \in led_gpios THEN [lv EXCEPT ![i] = v] ELSE lv

\* where the switch of button_work_handler goes after setting current_led_state
AfterSwitchOnFirst(n) ==
    CASE n \in 1 .. 3 -> IF (n - 1) \in led_gpios THEN "on" ELSE "clear"
      [] n = 4 -> "all_on"
      [] OTHER -> "off"

AfterSwitchFourOff(n) ==
    CASE n \in 1 .. 3 -> IF (n - 1) \in led_gpios THEN "off" ELSE "clear"
      [] OTHER -> "off"

AfterSwitch(n) ==
    CASE n \in 1 .. 3 -> IF (n - 1) \in led_gpios THEN "off" ELSE "clear"
      [] n = 4 -> "all_on"
      [] OTHER -> "off"

\* the workqueue takes the pending work item and calls button_work_handler
WkStart ==
    /\ work_pending
    /\ wk_pc = "idle"
    /\ work_pending' = FALSE
    /\ wk_pc' = "switch"
    /\ UNCHANGED <<jiffies, last_irq_time, press_count, button_pressed, ledVars,
                   timerVars, irqVars, tmr_pc, wk_n, wk_i, wrVars, rd_ret>>
    /\ wr_alone' = FALSE
    /\ UNCHANGED <<elapsed, accepted, verdict, fast, reset_seen, cycVars, completed,
                   trackVars, done_by, resets, wr_base, rs_case, ap_n, once, fileHist>>
    /\ sched_calls' = 0
    /\ UNCHANGED <<rm_pc, rd_pc, pb_pc>>
    /\ UNCHANGED otherVars

\* switch (press_count) and the case's assignment to current_led_state
WkSwitch ==
    /\ wk_pc = "switch"
    /\ wk_n' = press_count
    /\ current_led_state' = LedStateFor(press_count)
    /\ wk_pc' = AfterSwitch(press_count)
    /\ wk_i' = 0
    /\ runs' = runs + 1
    /\ owed' = owed - press_count
    /\ completed' = 0
    /\ UNCHANGED <<jiffies, last_irq_time, press_count, button_pressed, led_gpios,
                   led_value, timerVars, work_pending, irqVars, tmr_pc, wrVars, rd_ret>>
    /\ UNCHANGED <<elapsed, accepted, verdict, fast, reset_seen, presses, trackVars>>
    /\ UNCHANGED <<rm_pc, rd_pc, pb_pc>>
    /\ UNCHANGED <<auxVars, sched_calls, fileHist>>
    /\ UNCHANGED otherVars

\* turn_off_all_leds: every line whose descriptor is not NULL is written 0
TurnOffAllLedsButLast(lv) ==
    [i \in Leds |-> IF i \in led_gpios /\ i < NUM_LEDS - 1 THEN FALSE ELSE lv[i]]

TurnOffAllLeds(lv) == [i \in Leds |-> IF i \in led_gpios THEN FALSE ELSE lv[i]]

\* turn_off_all_leds called by the work handler.  The loop is one step: the only
\* other writer of the lines while it runs (the reset command) writes the same level.
WkOff ==
    /\ wk_pc = "off"
    /\ led_value' = TurnOffAllLeds(led_value)
    /\ wk_pc' = IF wk_n \in 1 .. 3 THEN "on" ELSE "clear"
    /\ UNCHANGED <<jiffies, last_irq_time, press_count, button_pressed,
                   current_led_state, led_gpios, timerVars, work_pending, irqVars,
                   tmr_pc, wk_n, wk_i, wrVars, rd_ret>>
    /\ UNCHANGED histVars
    /\ UNCHANGED <<rm_pc, rd_pc, pb_pc>>
    /\ UNCHANGED otherVars

\* control_led: gpiod_set_value(led_gpios[led_index], 1)
WkOn ==
    /\ wk_pc = "on"
    /\ led_value' = [led_value EXCEPT ![wk_n - 1] = TRUE]
    /\ wk_pc' = "clear"
    /\ UNCHANGED <<jiffies, last_irq_time, press_count, button_pressed,
                   current_led_state, led_gpios, timerVars, work_pending, irqVars,
                   tmr_pc, wk_n, wk_i, wrVars, rd_ret>>
    /\ UNCHANGED histVars
    /\ UNCHANGED <<rm_pc, rd_pc, pb_pc>>
    /\ UNCHANGED otherVars

\* one iteration of the loop of turn_on_all_leds
WkAllOn ==
    /\ wk_pc = "all_on"
    /\ led_value' = SetLed(led_value, wk_i, TRUE)
    /\ IF wk_i + 1 < NUM_LEDS
          THEN wk_i' = wk_i + 1 /\ wk_pc' = "all_on"
          ELSE wk_i' = 0 /\ wk_pc' = "clear"
    /\ UNCHANGED <<jiffies, last_irq_time, press_count, button_pressed,
                   current_led_state, led_gpios, timerVars, work_pending, irqVars,
                   tmr_pc, wk_n, wrVars, rd_ret>>
    /\ UNCHANGED histVars
    /\ UNCHANGED <<rm_pc, rd_pc, pb_pc>>
    /\ UNCHANGED otherVars

\* press_count = 0, then the handler returns
WkClear ==
    /\ wk_pc = "clear"
    /\ press_count' = 0
    /\ wk_pc' = "idle"
    /\ wk_n' = 0
    /\ UNCHANGED <<jiffies, last_irq_time, button_pressed, ledVars, timerVars,
                   work_pending, irqVars, tmr_pc, wk_i, wrVars, rd_ret>>
    /\ UNCHANGED histVars
    /\ UNCHANGED <<rm_pc, rd_pc, pb_pc>>
    /\ UNCHANGED otherVars

(* ----------------------------- button_write ---------------------------- *)

\* the first byte of the buffer a client writes; "unreadable" is a buffer that
\* copy_from_user cannot read
Commands == {"r", "s", "x", "unreadable"}

\* button_write up to its switch: the return value, or "run" for the reset command
WriteOutcomeUnknownResets(len, cmd) ==
    IF len < 1 \/ cmd = "unreadable" THEN "EFAULT"
    ELSE CASE cmd = "s" -> "len"
           [] OTHER -> "run"

WriteOutcomeStatusResets(len, cmd) ==
    IF len < 1 \/ cmd = "unreadable" THEN "EFAULT"
    ELSE CASE cmd \in {"r", "s"} -> "run"
           [] OTHER -> "EINVAL"

WriteOutcome(len, cmd) ==
    IF len < 1 \/ cmd = "unreadable" THEN "EFAULT"
    ELSE CASE cmd = "r" -> "run"
           [] cmd = "s" -> "len"
           [] OTHER -> "EINVAL"

\* button_write is called with len bytes starting with cmd
WrCall ==
    /\ wr_pc = "idle"
    /\ writes < MaxWrites
    /\ writes' = writes + 1
    /\ \E len \in 0 .. 1, cmd \in Commands :
          LET out == WriteOutcome(len, cmd) IN
          /\ wr_arg' = <<len, cmd>>
          /\ wr_pc' = IF out = "run" THEN "count" ELSE "idle"
          /\ wr_ret' = IF out = "run" THEN "none" ELSE out
          /\ reset_seen' = (reset_seen \/ out = "run")
          /\ resets' = IF out = "run" THEN resets + 1 ELSE resets
          /\ wr_base' = IF out = "run"
                           THEN presses - (IF irq_pc = "idle" THEN 0 ELSE 1)
                           ELSE wr_base
          /\ wr_alone' = (out = "run" /\ wk_pc = "idle")
          /\ rs_case' = IF out # "run" THEN rs_case
                        ELSE IF irq_pc # "idle" THEN "none"
                        ELSE IF press_count = 3 /\ timer_pending /\ Calm THEN "armed3"
                        ELSE "quiet"
    /\ UNCHANGED <<jiffies, last_irq_time, press_count, button_pressed, ledVars,
                   timerVars, work_pending, irqVars, tmr_pc, wkVars, wr_i, rd_ret>>
    /\ UNCHANGED <<elapsed, accepted, verdict, fast, cycVars, completed, trackVars,
                   done_by, ap_n, once, sched_calls, pressed_since, queries, rd_arg>>
    /\ UNCHANGED <<rm_pc, rd_pc, pb_pc>>
    /\ UNCHANGED otherVars

\* case 'r': press_count = 0
WrCount ==
    /\ wr_pc = "count"
    /\ press_count' = 0
    /\ wr_pc' = "state"
    /\ UNCHANGED <<jiffies, last_irq_time, button_pressed, ledVars, timerVars,
                   work_pending, irqVars, tmr_pc, wkVars, wr_i, wr_ret, rd_ret>>
    /\ UNCHANGED histVars
    /\ UNCHANGED <<rm_pc, rd_pc, pb_pc>>
    /\ UNCHANGED otherVars

\* case 'r': current_led_state = 0
WrState ==
    /\ wr_pc = "state"
    /\ current_led_state' = 0
    /\ wr_pc' = "off"
    /\ wr_i' = 0
    /\ UNCHANGED <<jiffies, last_irq_time, press_count, button_pressed, led_gpios,
                   led_value, timerVars, work_pending, irqVars, tmr_pc, wkVars,
                   wr_ret, rd_ret>>
    /\ UNCHANGED histVars
    /\ UNCHANGED <<rm_pc, rd_pc, pb_pc>>
    /\ UNCHANGED otherVars

\* case 'r': one iteration of the loop of turn_off_all_leds; after the last, return len
WrOff ==
    /\ wr_pc = "off"
    /\ led_value' = SetLed(led_value, wr_i, FALSE)
    /\ IF wr_i + 1 < NUM_LEDS
          THEN /\ wr_i' = wr_i + 1 /\ wr_pc' = "off" /\ wr_ret' = wr_ret
               /\ UNCHANGED <<wr_base, wr_alone>>
          ELSE /\ wr_i' = 0 /\ wr_pc' = "idle" /\ wr_ret' = "len"
               /\ wr_base' = 0 /\ wr_alone' = FALSE
    /\ UNCHANGED <<jiffies, last_irq_time, press_count, button_pressed,
                   current_led_state, led_gpios, timerVars, work_pending, irqVars,
                   tmr_pc, wkVars, rd_ret>>
    /\ UNCHANGED <<elapsed, accepted, verdict, fast, reset_seen, cycVars, completed,
                   trackVars, done_by, resets, rs_case, ap_n, once, sched_calls, fileHist>>
    /\ UNCHANGED <<rm_pc, rd_pc, pb_pc>>
    /\ UNCHANGED otherVars

(* ----------------------------- button_read ----------------------------- *)

\* the rendering of current_led_state by button_read
LedStatusShifted(st) ==
    CASE st = 0 -> "All LEDs OFF"
      [] st = 1 -> "LED 1 (White) ON"
      [] st = 2 -> "LED 2 (Yellow) ON"
      [] st = 3 -> "LED 0 (Green) ON"
      [] st = 4 -> "All LEDs ON"
      [] OTHER -> "Unknown state"

LedStatus(st) ==
    CASE st = 0 -> "All LEDs OFF"
      [] st = 1 -> "LED 0 (Green) ON"
      [] st = 2 -> "LED 1 (White) ON"
      [] st = 3 -> "LED 2 (Yellow) ON"
      [] st = 4 -> "All LEDs ON"
      [] OTHER -> "Unknown state"

\* button_read with the file offset, a buffer that is large enough or not, and a
\* copy_to_user that succeeds or not
RdCall ==
    /\ rd_pc = "idle"
    /\ queries < MaxQueries
    /\ queries' = queries + 1
    /\ \E offset0 \in BOOLEAN, fits \in BOOLEAN, copied \in BOOLEAN :
          /\ rd_arg' = <<offset0, fits, copied>>
          /\ IF ~offset0 THEN rd_ret' = NoMessage("eof") /\ UNCHANGED <<rd_pc, pressed_since>>
             ELSE IF ~fits THEN rd_ret' = NoMessage("EINVAL") /\ UNCHANGED <<rd_pc, pressed_since>>
             ELSE IF ~copied THEN rd_ret' = NoMessage("EFAULT") /\ UNCHANGED <<rd_pc, pressed_since>>
             ELSE /\ rd_ret' = <<"msg_len", button_pressed, press_count,
                               LedStatus(current_led_state)>>
                  /\ rd_pc' = "clear"
                  /\ pressed_since' = FALSE
    /\ UNCHANGED <<jiffies, last_irq_time, press_count, button_pressed, ledVars, timerVars,
                   work_pending, irqVars, tmr_pc, wkVars, wrVars, rm_pc, pb_pc>>
    /\ UNCHANGED <<elapsed, accepted, verdict, fast, reset_seen, cycVars, completed,
                   trackVars, auxVars, sched_calls, writes, wr_arg>>
    /\ UNCHANGED otherVars

\* *offset += msg_len; button_pressed = false; return msg_len
RdClear ==
    /\ rd_pc = "clear"
    /\ button_pressed' = FALSE
    /\ rd_pc' = "idle"
    /\ UNCHANGED <<jiffies, last_irq_time, press_count, ledVars, timerVars,
                   work_pending, irqVars, tmr_pc, wkVars, wrVars, rd_ret, rm_pc, pb_pc>>
    /\ UNCHANGED histVars
    /\ UNCHANGED otherVars

(* --------------------------- specification ----------------------------- *)

\* the press path: interrupt handler, timer callback and work handler
PressNext ==
    \/ Tick
    \/ IrqReject \/ IrqAccept \/ IrqStore \/ IrqModTimer \/ IrqCheck
    \/ IrqDelTimer \/ IrqSchedule
    \/ TimerFire \/ TmrCheck \/ TmrSchedule
    \/ WkStart \/ WkSwitch \/ WkOff \/ WkOn \/ WkAllOn \/ WkClear

\* the file operations of the character device
FileNext ==
    \/ WrCall \/ WrCount \/ WrState \/ WrOff
    \/ RdCall \/ RdClear

\* the driver while no client calls its file operations
Spec == Init /\ [][PressNext]_vars

(* ---------------------- presses and reset commands -------------------- *)

\* the driver started at a tick of the lower half of the counter's range
StartMidRange == Init /\ jiffies = DebounceJiffies

\* a client writes the reset command
WrReset ==
    /\ resets < MaxResets
    /\ presses <= MaxPressesBeforeReset
    /\ WrCall
    /\ wr_pc' = "count"
    /\ UNCHANGED otherVars

\* the command takes less than a tick
ResetTick == wr_pc = "idle" /\ Tick

ResetNext ==
    \/ ResetTick
    \/ IrqReject \/ IrqAccept \/ IrqStore \/ IrqModTimer \/ IrqCheck
    \/ IrqDelTimer \/ IrqSchedule
    \/ TimerFire \/ TmrCheck \/ TmrSchedule
    \/ WkStart \/ WkSwitch \/ WkOff \/ WkOn \/ WkAllOn \/ WkClear
    \/ WrReset \/ WrCount \/ WrState \/ WrOff

\* the press path while a client issues reset commands
ResetSpec == StartMidRange /\ [][ResetNext]_vars

(* ---------------------------- button_remove --------------------------- *)

\* del_timer_sync(&press_timer): waits for a running callback, then the timer is
\* not armed
RmDelTimer ==
    /\ rm_pc = "idle"
    /\ tmr_pc = "idle"
    /\ timer_pending' = FALSE
    /\ rm_pc' = "cancel_work"
    /\ UNCHANGED <<jiffies, last_irq_time, press_count, button_pressed, ledVars,
                   timer_expires, work_pending, irqVars, tmr_pc, wkVars, wrVars, rd_ret, rd_pc, pb_pc>>
    /\ UNCHANGED histVars
    /\ UNCHANGED otherVars

\* cancel_work_sync(&button_work): waits for a running work handler and removes
\* the queued work
RmCancelWork ==
    /\ rm_pc = "cancel_work"
    /\ wk_pc = "idle"
    /\ work_pending' = FALSE
    /\ rm_pc' = "off"
    /\ UNCHANGED <<jiffies, last_irq_time, press_count, button_pressed, ledVars,
                   timerVars, irqVars, tmr_pc, wkVars, wrVars, rd_ret, rd_pc, pb_pc>>
    /\ sched_calls' = 0
    /\ UNCHANGED <<elapsed, accepted, verdict, fast, reset_seen, cycVars, completed,
                   trackVars, auxVars, fileHist>>
    /\ UNCHANGED otherVars

\* turn_off_all_leds(), the character device is removed, and button_remove returns
RmOff ==
    /\ rm_pc = "off"
    /\ led_value' = TurnOffAllLeds(led_value)
    /\ rm_pc' = "done"
    /\ UNCHANGED <<jiffies, last_irq_time, press_count, button_pressed,
                   current_led_state, led_gpios, timerVars, work_pending, irqVars,
                   tmr_pc, wkVars, wrVars, rd_ret, rd_pc, pb_pc>>
    /\ UNCHANGED histVars
    /\ UNCHANGED otherVars

\* after button_remove has returned, the device core frees what probe acquired with
\* devm_request_irq: the interrupt is released once its handler is not running
RmRelease ==
    /\ rm_pc = "done"
    /\ irq_pc = "idle"
    /\ rm_pc' = "released"
    /\ UNCHANGED <<jiffies, last_irq_time, press_count, button_pressed, ledVars,
                   timerVars, work_pending, irqVars, tmr_pc, wkVars, wrVars, rd_ret, rd_pc, pb_pc>>
    /\ UNCHANGED histVars
    /\ UNCHANGED otherVars

RemoveNext ==
    \/ PressNext
    \/ RmDelTimer \/ RmCancelWork \/ RmOff \/ RmRelease

\* the press path while the driver is removed
RemoveSpec == StartMidRange /\ [][RemoveNext]_vars

(* ------------------------- the arbiter alone --------------------------- *)

\* the levels the three LED lines can be at (the lines belong to the LED driver,
\* which writes them on its clients' requests)
LedConfigs == [Leds -> BOOLEAN]

\* a gesture has just completed with any count, the work is queued, and the LED
\* state and the lines are at any values
ApplyInit ==
    /\ jiffies = DebounceJiffies
    /\ last_irq_time = 0
    /\ press_count \in 0 .. MaxPresses
    /\ button_pressed = (press_count > 0)
    /\ current_led_state \in 0 .. 4
    /\ led_gpios = Leds
    /\ led_value \in LedConfigs
    /\ timer_pending = FALSE
    /\ timer_expires = 0
    /\ work_pending = TRUE
    /\ irq_pc = "idle" /\ irq_tmp = 0
    /\ tmr_pc = "idle"
    /\ wk_pc = "idle" /\ wk_n = 0 /\ wk_i = 0
    /\ wr_pc = "idle" /\ wr_i = 0
    /\ wr_ret = "none" /\ rd_ret = NoMessage("none")
    /\ rd_pc = "idle"
    /\ pb_pc = "done"
    /\ rm_pc = "idle"
    /\ elapsed = 0
    /\ accepted = (press_count > 0)
    /\ verdict = "none"
    /\ fast = TRUE
    /\ reset_seen = FALSE
    /\ presses = press_count
    /\ owed = press_count
    /\ runs = 0
    /\ completed = press_count
    /\ track = 0
    /\ t_acc = 0
    /\ done_by = "none"
    /\ resets = 0
    /\ wr_base = 0
    /\ wr_alone = FALSE
    /\ rs_case = "none"
    /\ ap_n = press_count
    /\ once = <<>>
    /\ sched_calls = 1
    /\ pressed_since = button_pressed
    /\ queries = 0 /\ rd_arg = <<>>
    /\ writes = 0 /\ wr_arg = <<>>
    /\ OtherInit

\* after the first run of the work handler, a gesture completes with the same count
\* again and the work is queued again
ApplyAgain ==
    /\ wk_pc = "idle" /\ ~work_pending
    /\ runs = 1
    /\ once' = <<current_led_state, led_value>>
    /\ press_count' = ap_n
    /\ work_pending' = ScheduleWork(work_pending)
    /\ sched_calls' = sched_calls + 1
    /\ completed' = ap_n
    /\ presses' = presses + ap_n
    /\ owed' = owed + ap_n
    /\ UNCHANGED <<jiffies, last_irq_time, button_pressed, ledVars, timerVars,
                   irqVars, tmr_pc, wkVars, wrVars, rd_ret, rm_pc, rd_pc, pb_pc>>
    /\ UNCHANGED <<elapsed, accepted, verdict, fast, reset_seen, runs, trackVars,
                   done_by, resets, wr_base, wr_alone, rs_case, ap_n, fileHist>>
    /\ UNCHANGED otherVars

ApplyNext ==
    \/ WkStart \/ WkSwitch \/ WkOff \/ WkOn \/ WkAllOn \/ WkClear
    \/ ApplyAgain

\* the work handler run once, then once more, for one count
ApplySpec == ApplyInit /\ [][ApplyNext]_vars

(* ----------------- the file operations on a driver at rest ------------- *)

\* the driver between two interrupts, whatever the presses and dispatches before:
\* any count, any flag, any LED state with the lines it leaves, the timer armed
\* while a gesture is open, the work queued or not
FileInit ==
    /\ jiffies = DebounceJiffies
    /\ last_irq_time = 0
    /\ press_count \in 0 .. MaxPresses
    /\ button_pressed \in BOOLEAN
    /\ current_led_state \in 0 .. 4
    /\ led_gpios = Leds
    /\ led_value = [i \in Leds |-> current_led_state = 4 \/ current_led_state = i + 1]
    /\ timer_pending = (press_count > 0)
    /\ timer_expires = UAdd(jiffies, TimeoutJiffies)
    /\ work_pending \in BOOLEAN
    /\ irq_pc = "idle" /\ irq_tmp = 0
    /\ tmr_pc = "idle"
    /\ wk_pc = "idle" /\ wk_n = 0 /\ wk_i = 0
    /\ wr_pc = "idle" /\ wr_i = 0
    /\ wr_ret = "none" /\ rd_ret = NoMessage("none")
    /\ rd_pc = "idle"
    /\ pb_pc = "done"
    /\ rm_pc = "idle"
    /\ elapsed = 0
    /\ accepted = (press_count > 0)
    /\ verdict = "none"
    /\ fast = TRUE
    /\ reset_seen = FALSE
    /\ presses = press_count
    /\ owed = press_count
    /\ runs = 0
    /\ completed = 0
    /\ track = 0
    /\ t_acc = 0
    /\ done_by = "none"
    /\ resets = 0
    /\ wr_base = 0
    /\ wr_alone = FALSE
    /\ rs_case = "none"
    /\ ap_n = 0
    /\ once = <<>>
    /\ sched_calls = IF work_pending THEN 1 ELSE 0
    /\ pressed_since = button_pressed
    /\ queries = 0 /\ rd_arg = <<>>
    /\ writes = 0 /\ wr_arg = <<>>
    /\ OtherInit

FileSpec == FileInit /\ [][FileNext]_vars

(* --------------------------- presses and queries ----------------------- *)

\* a client reads the device early in the behaviour
QueryCall == presses <= MaxPressesBeforeQuery /\ RdCall

\* once the client has queried, one more press at most is followed
QueryAccept == (queries = 0 \/ presses <= MaxPressesBeforeQuery) /\ IrqAccept

\* a query takes less than a tick
QueryTick == rd_pc = "idle" /\ Tick

QueryNext ==
    \/ QueryTick
    \/ IrqReject \/ QueryAccept \/ IrqStore \/ IrqModTimer \/ IrqCheck
    \/ IrqDelTimer \/ IrqSchedule
    \/ TimerFire \/ TmrCheck \/ TmrSchedule
    \/ WkStart \/ WkSwitch \/ WkOff \/ WkOn \/ WkAllOn \/ WkClear
    \/ QueryCall \/ RdClear

\* the press path while a client queries the device
QuerySpec == StartMidRange /\ [][QueryNext]_vars

(* ----------------------------- button_probe ---------------------------- *)

\* button_probe has obtained the button line and the three LED descriptors and is
\* about to request the interrupt
ProbeInit ==
    /\ jiffies = DebounceJiffies
    /\ last_irq_time = 0
    /\ press_count = 0
    /\ button_pressed = FALSE
    /\ current_led_state = 0
    /\ led_gpios = Leds
    /\ led_value = [i \in Leds |-> FALSE]
    /\ timer_pending = FALSE
    /\ timer_expires = 0
    /\ work_pending = FALSE
    /\ irq_pc = "idle" /\ irq_tmp = 0
    /\ tmr_pc = "idle"
    /\ wk_pc = "idle" /\ wk_n = 0 /\ wk_i = 0
    /\ wr_pc = "idle" /\ wr_i = 0
    /\ wr_ret = "none" /\ rd_ret = NoMessage("none")
    /\ rd_pc = "idle"
    /\ pb_pc = "request_irq"
    /\ rm_pc = "idle"
    /\ elapsed = 0
    /\ accepted = FALSE
    /\ verdict = "none"
    /\ fast = TRUE
    /\ reset_seen = FALSE
    /\ presses = 0
    /\ owed = 0
    /\ runs = 0
    /\ completed = 0
    /\ track = 0
    /\ t_acc = 0
    /\ done_by = "none"
    /\ resets = 0
    /\ wr_base = 0
    /\ wr_alone = FALSE
    /\ rs_case = "none"
    /\ ap_n = 0
    /\ once = <<>>
    /\ sched_calls = 0
    /\ pressed_since = FALSE
    /\ queries = 0 /\ rd_arg = <<>>
    /\ writes = 0 /\ wr_arg = <<>>
    /\ OtherInit

\* devm_request_irq: from here on the handler runs at every falling edge
PbRequestIrq ==
    /\ pb_pc = "request_irq"
    /\ pb_pc' = "timer_setup"
    /\ UNCHANGED <<jiffies, last_irq_time, press_count, button_pressed, ledVars, timerVars,
                   work_pending, irqVars, tmr_pc, wkVars, wrVars, rd_ret, rm_pc, rd_pc>>
    /\ UNCHANGED histVars
    /\ UNCHANGED otherVars

\* timer_setup(&press_timer, press_timer_callback, 0)
PbTimerSetup ==
    /\ pb_pc = "timer_setup"
    /\ pb_pc' = "init_work"
    /\ UNCHANGED <<jiffies, last_irq_time, press_count, button_pressed, ledVars, timerVars,
                   work_pending, irqVars, tmr_pc, wkVars, wrVars, rd_ret, rm_pc, rd_pc>>
    /\ UNCHANGED histVars
    /\ UNCHANGED otherVars

\* INIT_WORK(&button_work, button_work_handler)
PbInitWork ==
    /\ pb_pc = "init_work"
    /\ pb_pc' = "cdev"
    /\ UNCHANGED <<jiffies, last_irq_time, press_count, button_pressed, ledVars, timerVars,
                   work_pending, irqVars, tmr_pc, wkVars, wrVars, rd_ret, rm_pc, rd_pc>>
    /\ UNCHANGED histVars
    /\ UNCHANGED otherVars

\* the character device is created, or one of its four steps fails and button_probe
\* returns the error
PbCdev ==
    /\ pb_pc = "cdev"
    /\ \E ok \in BOOLEAN : pb_pc' = IF ok THEN "off" ELSE "failed"
    /\ UNCHANGED <<jiffies, last_irq_time, press_count, button_pressed, ledVars, timerVars,
                   work_pending, irqVars, tmr_pc, wkVars, wrVars, rd_ret, rm_pc, rd_pc>>
    /\ UNCHANGED histVars
    /\ UNCHANGED otherVars

\* turn_off_all_leds(); return 0
PbOff ==
    /\ pb_pc = "off"
    /\ led_value' = TurnOffAllLeds(led_value)
    /\ pb_pc' = "done"
    /\ UNCHANGED <<jiffies, last_irq_time, press_count, button_pressed, current_led_state,
                   led_gpios, timerVars, work_pending, irqVars, tmr_pc, wkVars, wrVars,
                   rd_ret, rm_pc, rd_pc>>
    /\ UNCHANGED histVars
    /\ UNCHANGED otherVars

\* the statements from devm_request_irq to INIT_WORK take less than a tick
ProbeTick == pb_pc \notin {"timer_setup", "init_work"} /\ Tick

ProbeNext ==
    \/ PbRequestIrq \/ PbTimerSetup \/ PbInitWork \/ PbCdev \/ PbOff
    \/ ProbeTick
    \/ IrqReject \/ IrqAccept \/ IrqStore \/ IrqModTimer \/ IrqCheck
    \/ IrqDelTimer \/ IrqSchedule
    \/ TimerFire \/ TmrCheck \/ TmrSchedule
    \/ WkStart \/ WkSwitch \/ WkOff \/ WkOn \/ WkAllOn \/ WkClear

\* the press path from the moment the driver is bound
ProbeSpec == ProbeInit /\ [][ProbeNext]_vars

(* ------------------------- fair scheduling ----------------------------- *)

\* time passes, an interrupt handler that has started runs to its end, an expired
\* timer runs its callback, and the workqueue runs the work that is queued
Fairness ==
    /\ WF_vars(Tick)
    /\ WF_vars(IrqStore) /\ WF_vars(IrqModTimer) /\ WF_vars(IrqCheck)
    /\ WF_vars(IrqDelTimer) /\ WF_vars(IrqSchedule)
    /\ WF_vars(TimerFire) /\ WF_vars(TmrCheck) /\ WF_vars(TmrSchedule)
    /\ WF_vars(WkStart) /\ WF_vars(WkSwitch) /\ WF_vars(WkOff) /\ WF_vars(WkOn)
    /\ WF_vars(WkAllOn) /\ WF_vars(WkClear)

\* the presses stop after MaxFairPresses
FairAccept == presses < MaxFairPresses /\ IrqAccept

FairNext ==
    \/ Tick
    \/ IrqReject \/ FairAccept \/ IrqStore \/ IrqModTimer \/ IrqCheck
    \/ IrqDelTimer \/ IrqSchedule
    \/ TimerFire \/ TmrCheck \/ TmrSchedule
    \/ WkStart \/ WkSwitch \/ WkOff \/ WkOn \/ WkAllOn \/ WkClear

\* the press path under fair scheduling
FairSpec == StartMidRange /\ [][FairNext]_vars /\ Fairness

(* ------------------- presses and every file operation ----------------- *)

\* a client calls one file operation, early in the behaviour
DeviceWrite ==
    /\ queries = 0 /\ writes = 0
    /\ presses <= MaxPressesBeforeQuery
    /\ WrCall

DeviceRead ==
    /\ queries = 0 /\ writes = 0
    /\ QueryCall

\* once the client has called its file operation, one more press at most is followed
DeviceAccept ==
    /\ (queries = 0 /\ writes = 0) \/ presses <= MaxPressesBeforeQuery
    /\ IrqAccept

\* a file operation takes less than a tick
DeviceTick == wr_pc = "idle" /\ rd_pc = "idle" /\ Tick

DeviceNext ==
    \/ DeviceTick
    \/ IrqReject \/ DeviceAccept \/ IrqStore \/ IrqModTimer \/ IrqCheck
    \/ IrqDelTimer \/ IrqSchedule
    \/ TimerFire \/ TmrCheck \/ TmrSchedule
    \/ WkStart \/ WkSwitch \/ WkOff \/ WkOn \/ WkAllOn \/ WkClear
    \/ DeviceWrite \/ WrCount \/ WrState \/ WrOff
    \/ DeviceRead \/ RdClear

\* the press path while a client uses the character device
DeviceSpec == StartMidRange /\ [][DeviceNext]_vars

(* ----------------------- LED driver (led_driver.c) --------------------- *)

\* the commands led_write is given: '1', '0', 't', another character, or a buffer
\* that cannot be read
LedCommands == {"1", "0", "t", "x", "unreadable"}

\* the requests led_ioctl is given
LedRequests == {"GPIO_IOC_LED_ON", "GPIO_IOC_LED_OFF", "GPIO_IOC_LED_TOGGLE",
                "GPIO_IOC_GET_STATUS", "other"}

\* what a command does to the LED: "on", "off", "toggle", or "none" when it returns
\* without touching the LED
LedWriteOp(len, cmd) ==
    IF len < 1 \/ cmd = "unreadable" THEN "none"
    ELSE IF cmd = "1" THEN "on"
    ELSE IF cmd = "0" THEN "off"
    ELSE IF cmd = "t" THEN "toggle"
    ELSE "none"

LedIoctlOp(cmd) ==
    IF cmd = "GPIO_IOC_LED_ON" THEN "on"
    ELSE IF cmd = "GPIO_IOC_LED_OFF" THEN "off"
    ELSE IF cmd = "GPIO_IOC_LED_TOGGLE" THEN "toggle"
    ELSE "none"

\* led_state[led_index] = true / false / !led_state[led_index]
LedDrvStore(i, op) ==
    /\ ld_calls' = ld_calls + 1
    /\ IF op = "none"
          THEN UNCHANGED <<led_state, ld_pc, ld_i, ld_cmd>>
          ELSE /\ led_state' = [led_state EXCEPT ![i] =
                                   IF op = "on" THEN TRUE
                                   ELSE IF op = "off" THEN FALSE
                                   ELSE ~led_state[i]]
               /\ ld_pc' = "line"
               /\ ld_i' = i
               /\ ld_cmd' = op
    /\ UNCHANGED <<progVars, histVars, gpio2Vars>>

\* led_write on the file of LED i, up to its assignment to led_state
LedWrite ==
    /\ ld_pc = "idle"
    /\ \E i \in Leds, len \in {0, 1}, cmd \in LedCommands :
          LedDrvStore(i, LedWriteOp(len, cmd))

\* led_ioctl on the file of LED i, up to its assignment to led_state
LedIoctl ==
    /\ ld_pc = "idle"
    /\ \E i \in Leds, cmd \in LedRequests :
          LedDrvStore(i, LedIoctlOp(cmd))

\* gpiod_set_value(led_gpio[led_index], 1 / 0 / led_state[led_index]), and the return
LedLine ==
    /\ ld_pc = "line"
    /\ led_value' = [led_value EXCEPT ![ld_i] =
                        IF ld_cmd = "on" THEN TRUE
                        ELSE IF ld_cmd = "off" THEN FALSE
                        ELSE led_state[ld_i]]
    /\ ld_pc' = "idle"
    /\ ld_cmd' = "none"
    /\ UNCHANGED <<jiffies, last_irq_time, press_count, button_pressed, current_led_state,
                   led_gpios, timerVars, work_pending, irqVars, tmr_pc, wkVars, wrVars,
                   rd_ret, rm_pc, rd_pc, pb_pc>>
    /\ UNCHANGED <<histVars, gpio2Vars, led_state, ld_i, ld_calls>>

\* a client gives the LED driver one command, early in the behaviour
LedFirstWrite == ld_calls = 0 /\ presses <= MaxPressesBeforeQuery /\ LedWrite

LedFirstIoctl == ld_calls = 0 /\ presses <= MaxPressesBeforeQuery /\ LedIoctl

\* and a client of the button driver one command
LedButtonWrite == writes = 0 /\ presses <= MaxPressesBeforeQuery /\ WrCall

\* once a command has been given, one more press at most is followed
LedAccept ==
    /\ (ld_calls = 0 /\ writes = 0) \/ presses <= MaxPressesBeforeQuery
    /\ IrqAccept

\* a command takes less than a tick
LedTick == ld_pc = "idle" /\ wr_pc = "idle" /\ Tick

LedNext ==
    \/ LedTick
    \/ IrqReject \/ LedAccept \/ IrqStore \/ IrqModTimer \/ IrqCheck
    \/ IrqDelTimer \/ IrqSchedule
    \/ TimerFire \/ TmrCheck \/ TmrSchedule
    \/ WkStart \/ WkSwitch \/ WkOff \/ WkOn \/ WkAllOn \/ WkClear
    \/ LedButtonWrite \/ WrCount \/ WrState \/ WrOff
    \/ LedFirstWrite \/ LedFirstIoctl \/ LedLine

\* the button driver and the LED driver on the same three lines
LedSpec == StartMidRange /\ [][LedNext]_vars

(* --------------- single-LED toggle driver (gpio_driver_2.c) ------------ *)

\* if (interrupt_time - last_interrupt_time < msecs_to_jiffies(50)), in unsigned long
G2DebounceRejects(interrupt_time, last) ==
    USub(interrupt_time, last) < MsecsToJiffies(50)

\* the tick counter advances by less than the debounce window, or by the window
G2Tick ==
    /\ g2_irq_pc = "idle"
    /\ \E d \in {DebounceJiffies - 1, DebounceJiffies} : jiffies' = UAdd(jiffies, d)
    /\ UNCHANGED <<last_irq_time, press_count, button_pressed, ledVars, timerVars,
                   work_pending, irqVars, tmr_pc, wkVars, wrVars, rd_ret, rm_pc, rd_pc,
                   pb_pc>>
    /\ UNCHANGED <<histVars, ledDrvVars, gpio2Vars>>

\* a falling edge inside the debounce window: the handler returns at once
G2IrqReject ==
    /\ g2_irq_pc = "idle"
    /\ G2DebounceRejects(jiffies, last_interrupt_time)
    /\ UNCHANGED vars

\* a falling edge outside the window: last_interrupt_time = interrupt_time
G2IrqAccept ==
    /\ g2_irq_pc = "idle"
    /\ ~G2DebounceRejects(jiffies, last_interrupt_time)
    /\ last_interrupt_time' = jiffies
    /\ g2_irq_pc' = "load"
    /\ UNCHANGED <<progVars, histVars, ledDrvVars>>
    /\ UNCHANGED <<g2_led_state, g2_led_gpio, g2_irq_tmp, g2_cmd_pc, g2_cmd, g2_cmd_tmp>>

\* led_state = !led_state: the load
G2IrqLoad ==
    /\ g2_irq_pc = "load"
    /\ g2_irq_tmp' = g2_led_state
    /\ g2_irq_pc' = "store"
    /\ UNCHANGED <<progVars, histVars, ledDrvVars>>
    /\ UNCHANGED <<g2_led_state, g2_led_gpio, last_interrupt_time, g2_cmd_pc, g2_cmd,
                   g2_cmd_tmp>>

\* led_state = !led_state: the store
G2IrqStore ==
    /\ g2_irq_pc = "store"
    /\ g2_led_state' = ~g2_irq_tmp
    /\ g2_irq_pc' = "line"
    /\ UNCHANGED <<progVars, histVars, ledDrvVars>>
    /\ UNCHANGED <<g2_led_gpio, last_interrupt_time, g2_irq_tmp, g2_cmd_pc, g2_cmd,
                   g2_cmd_tmp>>

\* the value gpiod_set_value(led_gpio, led_state) is given after led_state = !led_state:
\* led_state is not volatile and no lock is held, so the build passes the value it has
\* just computed or loads led_state again
ToggledLevels(computed, stored) == {computed, stored}

\* gpiod_set_value(led_gpio, led_state), and the return
G2IrqLine ==
    /\ g2_irq_pc = "line"
    /\ g2_led_gpio' \in ToggledLevels(~g2_irq_tmp, g2_led_state)
    /\ g2_irq_pc' = "idle"
    /\ UNCHANGED <<progVars, histVars, ledDrvVars>>
    /\ UNCHANGED <<g2_led_state, last_interrupt_time, g2_irq_tmp, g2_cmd_pc, g2_cmd,
                   g2_cmd_tmp>>

\* the commands gpio_write is given: '1', '0', 't', 'T', another character, or a buffer
\* that cannot be read
Gpio2Commands == {"1", "0", "t", "T", "x", "unreadable"}

\* what a command does to the LED: "on", "off", "toggle", or "none" when gpio_write
\* returns without touching the LED
Gpio2WriteOp(len, cmd) ==
    IF len = 0 \/ cmd = "unreadable" THEN "none"
    ELSE IF cmd = "1" THEN "on"
    ELSE IF cmd = "0" THEN "off"
    ELSE IF cmd \in {"t", "T"} THEN "toggle"
    ELSE "none"

\* the position a command starts at
Gpio2Start(op) ==
    /\ g2_cmd' = op
    /\ g2_cmd_pc' = IF op = "none" THEN "idle" ELSE IF op = "toggle" THEN "load" ELSE "store"
    /\ UNCHANGED <<progVars, histVars, ledDrvVars>>
    /\ UNCHANGED <<g2_led_state, g2_led_gpio, last_interrupt_time, g2_irq_pc, g2_irq_tmp,
                   g2_cmd_tmp>>

\* gpio_write, up to its switch
G2Write ==
    /\ g2_cmd_pc = "idle"
    /\ \E len \in {0, 1}, cmd \in Gpio2Commands : Gpio2Start(Gpio2WriteOp(len, cmd))

\* the requests gpio_ioctl is given
Gpio2Requests == {"GPIO_IOC_LED_ON", "GPIO_IOC_LED_OFF", "GPIO_IOC_LED_TOGGLE",
                  "GPIO_IOC_GET_STATUS", "other"}

\* what a request does to the LED; GPIO_IOC_GET_STATUS copies the status out and an
\* unknown request returns -ENOTTY
Gpio2IoctlOp(cmd) ==
    IF cmd = "GPIO_IOC_LED_ON" THEN "on"
    ELSE IF cmd = "GPIO_IOC_LED_OFF" THEN "off"
    ELSE IF cmd = "GPIO_IOC_LED_TOGGLE" THEN "toggle"
    ELSE "none"

\* gpio_ioctl, up to its switch
G2Ioctl ==
    /\ g2_cmd_pc = "idle"
    /\ \E cmd \in Gpio2Requests : Gpio2Start(Gpio2IoctlOp(cmd))

\* led_state = !led_state: the load
G2CmdLoad ==
    /\ g2_cmd_pc = "load"
    /\ g2_cmd_tmp' = g2_led_state
    /\ g2_cmd_pc' = "store"
    /\ UNCHANGED <<progVars, histVars, ledDrvVars>>
    /\ UNCHANGED <<g2_led_state, g2_led_gpio, last_interrupt_time, g2_irq_pc, g2_irq_tmp,
                   g2_cmd>>

\* led_state = true / false / !led_state: the store
G2CmdStore ==
    /\ g2_cmd_pc = "store"
    /\ g2_led_state' = IF g2_cmd = "on" THEN TRUE
                       ELSE IF g2_cmd = "off" THEN FALSE
                       ELSE ~g2_cmd_tmp
    /\ g2_cmd_pc' = "line"
    /\ UNCHANGED <<progVars, histVars, ledDrvVars>>
    /\ UNCHANGED <<g2_led_gpio, last_interrupt_time, g2_irq_pc, g2_irq_tmp, g2_cmd,
                   g2_cmd_tmp>>

\* gpiod_set_value(led_gpio, 1 / 0 / led_state), and the return
G2CmdLine ==
    /\ g2_cmd_pc = "line"
    /\ g2_led_gpio' \in IF g2_cmd = "on" THEN {TRUE}
                        ELSE IF g2_cmd = "off" THEN {FALSE}
                        ELSE ToggledLevels(~g2_cmd_tmp, g2_led_state)
    /\ g2_cmd_pc' = "idle"
    /\ g2_cmd' = "none"
    /\ UNCHANGED <<progVars, histVars, ledDrvVars>>
    /\ UNCHANGED <<g2_led_state, last_interrupt_time, g2_irq_pc, g2_irq_tmp, g2_cmd_tmp>>

Gpio2Next ==
    \/ G2Tick
    \/ G2IrqReject \/ G2IrqAccept \/ G2IrqLoad \/ G2IrqStore \/ G2IrqLine
    \/ G2Write \/ G2Ioctl \/ G2CmdLoad \/ G2CmdStore \/ G2CmdLine

\* the single-LED toggle driver: its interrupt handler and one client
Gpio2Spec == Init /\ [][Gpio2Next]_vars

(* ------------------------------ claims --------------------------------- *)

\* the work handler has read press_count in its switch and has not returned
WkAfterSwitch == wk_pc \in {"off", "on", "all_on", "clear"}

\* a raw event is handled in this step
RawEvent == IrqReject \/ IrqAccept

\* C1: with no reset command, the work handler never runs for a gesture with no
\* press: the value its switch reads is never 0.
C1_NeverObservesZero == (~reset_seen /\ WkAfterSwitch) => wk_n > 0

\* C2: the value the work handler maps to an LED state is the value press_count had
\* when the gesture completed (the timer callback saw press_count > 0, or the
\* interrupt handler saw press_count >= 5).
C2_DispatchedCountPreserved ==
    [][(wk_pc = "switch" /\ wk_pc' # "switch") => wk_n' = completed]_vars

\* C3: with no reset command, whenever nothing is armed, queued or running, every
\* accepted press has been processed by exactly one run of the work handler.
C3_NoLostPress == (~reset_seen /\ Quiescent) => owed = 0

\* C4: a raw event less than the debounce window after the last accepted event
\* changes nothing: press_count, button_pressed, the timer, the pending work, the
\* LED state and the LED lines stay as they were.
C4_DebounceSuppression ==
    [][(accepted /\ elapsed < DebounceJiffies /\ RawEvent)
         => /\ verdict' = "rejected"
            /\ UNCHANGED <<press_count, button_pressed, timerVars, work_pending,
                           ledVars, last_irq_time, irqVars, tmr_pc, wkVars>>]_vars

C4_Witness ==
    /\ verdict = "rejected" /\ accepted /\ elapsed = DebounceJiffies - 1
    /\ press_count = 2 /\ timer_pending /\ button_pressed

\* C5: after an accepted event at tick L, an event at tick T is accepted iff
\* T - L is at least the debounce window; an accepted event sets last_irq_time to T,
\* a rejected one leaves it at L.
C5_DebounceRule ==
    [][(accepted /\ RawEvent)
         => IF elapsed >= DebounceJiffies
               THEN verdict' = "accepted" /\ last_irq_time' = jiffies
               ELSE verdict' = "rejected" /\ last_irq_time' = last_irq_time]_vars

\* C6: while no event has been accepted since the start, no raw event is rejected.
C6_FirstEventAccepted == ~accepted => verdict # "rejected"

\* C7: from the idle start, one accepted press and no further one lead to exactly
\* one run of the work handler, not before the press timeout has passed; the run
\* processes the count 1, selects LED 0 and leaves press_count at 0.
C7_TimeoutFinalization ==
    (presses = 1) =>
        /\ runs <= 1
        /\ (runs = 1 \/ work_pending \/ tmr_pc = "schedule") => elapsed >= TimeoutJiffies
        /\ WkAfterSwitch => (wk_n = 1 /\ current_led_state = 1)
        /\ Quiescent => /\ runs = 1 /\ owed = 0
                        /\ press_count = 0
                        /\ current_led_state = 1
                        /\ led_value = [i \in Leds |-> i = 0]

C7_Witness ==
    /\ presses = 1 /\ Quiescent /\ runs = 1 /\ current_led_state = 1
    /\ elapsed = TimeoutJiffies

\* C8: from the idle start, 5 accepted presses, each less than the press timeout
\* after the one before, lead to exactly one run with the count 5, requested by the
\* handler of the 5th press: when that handler has returned the timer is not armed
\* and the work is pending, running or done.  Whenever the interrupt handler is not
\* executing and press_count >= 5, the timer is not armed.
C8_CapShortCircuit ==
    /\ (fast /\ presses = MAX_PRESSES /\ irq_pc = "idle") =>
          /\ ~timer_pending /\ tmr_pc = "idle"
          /\ runs <= 1
          /\ (runs = 0) => ((work_pending \/ wk_pc = "switch") /\ press_count = MAX_PRESSES)
          /\ WkAfterSwitch => wk_n = MAX_PRESSES
          /\ Quiescent => (runs = 1 /\ press_count = 0 /\ current_led_state = 0)
    /\ (irq_pc = "idle" /\ press_count >= MAX_PRESSES) => ~timer_pending

C8_Witness ==
    /\ fast /\ presses = MAX_PRESSES /\ irq_pc = "idle" /\ work_pending /\ runs = 0
    /\ press_count = MAX_PRESSES /\ ~timer_pending /\ elapsed = 0

\* C9: raw events at 0, 200 and 400 ms after the start and none afterwards end, once
\* nothing is armed, queued or running, with one run of the work handler, LED 2
\* selected, line 2 on and lines 0 and 1 off.
C9_EndToEnd ==
    (track = Len(ScenarioTimes) /\ Quiescent) =>
        /\ runs = 1
        /\ current_led_state = 3
        /\ led_value = [i \in Leds |-> i = 2]

\* C10: the work handler maps the count n it read to the LED state by the table
\* 1 -> 1 (LED 0), 2 -> 2 (LED 1), 3 -> 3 (LED 2), 4 -> 4 (all on), any other
\* value -> 0 (all off), whatever the LED state was before.
C10_ArbiterMapping ==
    WkAfterSwitch =>
        /\ (wk_n = 1) => current_led_state = 1
        /\ (wk_n = 2) => current_led_state = 2
        /\ (wk_n = 3) => current_led_state = 3
        /\ (wk_n = 4) => current_led_state = 4
        /\ (wk_n \notin 1 .. 4) => current_led_state = 0

C10_Witness ==
    /\ wk_pc = "off" /\ wk_n > MAX_PRESSES /\ current_led_state = 0
    /\ \E i \in Leds : led_value[i]

\* a run of the work handler for the count ap_n has returned
Applied == runs >= 1 /\ wk_pc = "idle" /\ ~work_pending

\* C11: after the work handler has run to completion for the count n, from any
\* levels of the lines: for n in 1..3 exactly line n-1 is on, for n = 4 all three
\* lines are on, for n = 5 or n = 0 all lines are off.
C11_Exclusivity ==
    Applied =>
        /\ (ap_n \in 1 .. 3) => led_value = [i \in Leds |-> i = ap_n - 1]
        /\ (ap_n = 4) => led_value = [i \in Leds |-> TRUE]
        /\ (ap_n \in {0, 5}) => led_value = [i \in Leds |-> FALSE]

C11_Witness ==
    /\ Applied /\ runs = 1 /\ ap_n = 2 /\ current_led_state = 2
    /\ led_value = [i \in Leds |-> i = 1]

\* C12: for every count and every prior LED state and line levels, after two runs
\* of the work handler for the same count the LED state and the level of every
\* line are what they were after the first run.
C12_Idempotence ==
    (runs = 2 /\ wk_pc = "idle") => once = <<current_led_state, led_value>>

C12_Witness ==
    /\ runs = 2 /\ wk_pc = "idle" /\ ap_n = 4
    /\ once = <<4, [i \in Leds |-> TRUE]>>

\* every line is off
AllLinesOff == led_value = [i \in Leds |-> FALSE]

\* C13: when the reset command returns and the work handler has not been executing
\* since it was issued, press_count counts no press whose handler had returned
\* before the command was issued (it is 0 when no press overlaps the command), the
\* LED state is 0 (all off) and every line is off.
C13_ResetPostState ==
    [][(wr_pc = "off" /\ wr_pc' = "idle" /\ wr_alone)
         => /\ press_count' <= presses' - wr_base
            /\ current_led_state' = 0
            /\ led_value' = [i \in Leds |-> FALSE]]_vars

\* C14: after a reset command issued while press_count = 3, the timer is armed and
\* nothing else is under way, once the command has returned and until the next
\* press is accepted, the timer is not armed and neither its callback nor a
\* dispatch is pending or running.
C14_ResetCancelsDeadline ==
    (rs_case = "armed3" /\ wr_pc = "idle") =>
        /\ ~timer_pending /\ tmr_pc = "idle"
        /\ ~work_pending /\ wk_pc = "idle"

\* C15: once a reset command has returned, and until a press is accepted after it,
\* the LED state is 0 (all off) and no line is on, whatever dispatch was pending or
\* executing when the command was issued.
C15_ResetSerialized ==
    (rs_case # "none" /\ wr_pc = "idle") => (current_led_state = 0 /\ AllLinesOff)

\* C16: whenever neither the work handler nor a reset command is executing, the
\* lines that are on are those current_led_state denotes: none for 0, line
\* state-1 for 1..3, all three for 4.
C16_StateMatchesLines ==
    (wk_pc = "idle" /\ wr_pc = "idle") =>
        led_value = [i \in Leds |-> current_led_state = 4 \/ current_led_state = i + 1]

\* C17: once the 5th press has forced the completion and its handler has returned,
\* and until the next press is accepted, a timer callback that was expiring or
\* fires later never queues the work again after the work handler has started, so
\* it causes no further run of the work handler.
C17_LateTimerNoOp ==
    [][~ /\ done_by = "cap" /\ irq_pc = "idle" /\ ~work_pending
         /\ tmr_pc = "schedule" /\ tmr_pc' = "idle"]_vars

\* C18: when the work handler reads a count of 1 to 4 that includes the last
\* accepted press, at least the press timeout has passed since that press.
C18_RetriggerableTimeout ==
    [][(/\ wk_pc = "switch" /\ wk_pc' # "switch"
        /\ press_count \in 1 .. (MAX_PRESSES - 1)
        /\ irq_pc # "store")
         => elapsed >= TimeoutJiffies]_vars

\* C19: press_count is 0 from the completion of a gesture on: the first press
\* accepted after a completion increments press_count from 0, to 1.
C19_AtomicSessionReset ==
    [][(done_by # "none" /\ irq_pc = "idle" /\ irq_pc' = "store") => irq_tmp' = 0]_vars

\* C20: once button_remove has returned, the timer is not armed, neither its
\* callback nor a dispatch is pending or running, and every line is as the final
\* all-off write left it, while raw events keep arriving until the interrupt is
\* released.
C20_SafeShutdown ==
    (rm_pc \in {"done", "released"}) =>
        /\ ~timer_pending /\ tmr_pc = "idle"
        /\ ~work_pending /\ wk_pc = "idle"
        /\ AllLinesOff

\* the driver state a file operation must not touch unless it says so
DriverState == <<press_count, button_pressed, current_led_state, led_value,
                 timer_pending, timer_expires, work_pending>>

\* C23: a button_write of length 0, or whose first byte is neither 'r' nor 's',
\* returns an error code and leaves press_count, the pressed flag, the LED state,
\* the lines, the timer and the queued work as they were.
C23_InvalidCommandNoOp ==
    [][(writes' = writes + 1 /\ (wr_arg'[1] = 0 \/ wr_arg'[2] \notin {"r", "s"}))
         => /\ wr_pc' = "idle"
            /\ wr_ret' \in {"EFAULT", "EINVAL"}
            /\ UNCHANGED DriverState]_vars

C23_Witness ==
    /\ writes = 1 /\ wr_arg = <<1, "x">> /\ wr_ret = "EINVAL" /\ wr_pc = "idle"
    /\ press_count = 3 /\ button_pressed /\ current_led_state = 2
    /\ timer_pending /\ work_pending

\* C26: a button_write whose first byte is 's' returns success (its length) and
\* leaves press_count, the pressed flag, the LED state, the lines, the timer and
\* the queued work as they were.
C26_StatusDumpNoOp ==
    [][(writes' = writes + 1 /\ wr_arg' = <<1, "s">>)
         => /\ wr_pc' = "idle"
            /\ wr_ret' = "len"
            /\ UNCHANGED DriverState]_vars

C26_Witness ==
    /\ writes = 1 /\ wr_arg = <<1, "s">> /\ wr_ret = "len" /\ wr_pc = "idle"
    /\ press_count = 2 /\ button_pressed /\ current_led_state = 4
    /\ timer_pending /\ work_pending

\* C25: a successful query reports press_count as it is, and the LED state as
\* "All LEDs OFF" for 0, "LED 0 (Green) ON" for 1, "LED 1 (White) ON" for 2,
\* "LED 2 (Yellow) ON" for 3 and "All LEDs ON" for 4.
C25_QueryRendering ==
    [][(rd_pc = "idle" /\ rd_pc' = "clear")
         => /\ rd_ret'[1] = "msg_len"
            /\ rd_ret'[3] = press_count
            /\ (current_led_state = 0) => rd_ret'[4] = "All LEDs OFF"
            /\ (current_led_state = 1) => rd_ret'[4] = "LED 0 (Green) ON"
            /\ (current_led_state = 2) => rd_ret'[4] = "LED 1 (White) ON"
            /\ (current_led_state = 3) => rd_ret'[4] = "LED 2 (Yellow) ON"
            /\ (current_led_state = 4) => rd_ret'[4] = "All LEDs ON"]_vars

C25_Witness ==
    /\ rd_pc = "clear" /\ queries = 1
    /\ press_count = 3 /\ current_led_state = 3
    /\ rd_ret = <<"msg_len", TRUE, 3, "LED 2 (Yellow) ON">>

\* C24: a successful query reports Pressed exactly when a press was accepted since
\* the previous successful query, leaves the pressed flag false when it returns and
\* changes nothing else of the driver; a query that fails or is at a non-zero
\* offset leaves the flag as it was.
C24_OneShotPressed ==
    [][/\ (rd_pc = "idle" /\ rd_pc' = "clear")
            => /\ rd_ret'[2] = pressed_since
               /\ UNCHANGED DriverState
       /\ (rd_pc = "clear" /\ rd_pc' = "idle")
            => /\ ~button_pressed'
               /\ UNCHANGED <<press_count, current_led_state, led_value,
                              timer_pending, timer_expires, work_pending>>
       /\ (queries' = queries + 1 /\ rd_pc' = "idle")
            => UNCHANGED DriverState]_vars

\* C27: the work item is queued at most once: a schedule_work for a gesture
\* completion that finds it queued and not started leaves it queued once and starts
\* no run, and the run of the work handler that then starts leaves nothing queued,
\* so that one run serves both completions.
C27_SingleSlotDispatch ==
    [][/\ (sched_calls' = sched_calls + 1 /\ work_pending)
            => /\ work_pending'
               /\ UNCHANGED <<wk_pc, wk_n, wk_i, runs>>
       /\ (sched_calls >= 2 /\ sched_calls' = 0)
            => /\ ~work_pending'
               /\ wk_pc = "idle" /\ wk_pc' = "switch"]_vars

C27_Witness ==
    /\ sched_calls = 2 /\ work_pending /\ wk_pc = "idle"
    /\ irq_pc = "idle" /\ tmr_pc = "idle"

\* C28: current_led_state takes its new value only after the lines are written:
\* whenever a successful query formats its message, the lines that the LED state
\* it reports names as on are on and the others are off.
C28_StateAfterOutputs ==
    [][(rd_pc = "idle" /\ rd_pc' = "clear")
         => led_value = [i \in Leds |-> current_led_state = 4 \/ current_led_state = i + 1]]_vars

\* C29: when the work handler applies a count n of 1, 2 or 3, all three lines are
\* off when line n-1 is written on, and no other line is on after any of its
\* writes.
C29_OffBeforeOnSelected ==
    [][(wk_n \in 1 .. 3 /\ wk_pc \in {"off", "on"} /\ wk_pc' # wk_pc)
         => /\ (wk_pc = "on")
                 => /\ AllLinesOff
                    /\ led_value' = [i \in Leds |-> i = wk_n - 1]
            /\ \A i \in Leds \ {wk_n - 1} : ~led_value'[i]]_vars

C29_Witness ==
    /\ runs = 2 /\ wk_n = 2 /\ wk_pc = "on"
    /\ once = <<2, [i \in Leds |-> i = 1]>>
    /\ AllLinesOff

BetweenHandlers ==
    /\ irq_pc = "idle" /\ tmr_pc = "idle" /\ wk_pc = "idle"
    /\ wr_pc = "idle" /\ rd_pc = "idle"

\* C31: whenever no handler is executing, press_count > 0 implies that the press
\* timer is armed or the work is queued.
C31_SessionInvariant ==
    (BetweenHandlers /\ press_count > 0) => (timer_pending \/ work_pending)

C31_Witness ==
    /\ BetweenHandlers /\ press_count = MAX_PRESSES
    /\ ~timer_pending /\ work_pending

\* C32: a press timer callback that finds press_count = 0 returns without queueing
\* the work and without changing the count, the pressed flag, the LED state, the
\* lines or the timer.
C32_ZeroTimeoutNoOp ==
    [][(tmr_pc = "check" /\ tmr_pc' # "check" /\ press_count = 0)
         => /\ tmr_pc' = "idle"
            /\ UNCHANGED DriverState]_vars

C32_Witness ==
    /\ tmr_pc = "check" /\ press_count = 0 /\ ~timer_pending
    /\ irq_pc = "idle" /\ wk_pc = "idle" /\ ~work_pending /\ runs >= 1

\* C33: current_led_state and the lines change only in a step of the work handler
\* or of the reset command: no step of the interrupt handler, of the timer
\* callback, of a query or of another command changes them.
C33_ActuatorWriters ==
    [][(current_led_state' # current_led_state \/ led_value' # led_value)
         => \/ /\ wk_pc \in {"switch", "off", "on", "all_on"}
               /\ (wk_pc' # wk_pc \/ wk_i' # wk_i)
            \/ /\ wr_pc \in {"state", "off"}
               /\ (wr_pc' # wr_pc \/ wr_i' # wr_i)
               /\ wr_arg = <<1, "r">>]_vars

C33_Witness ==
    /\ writes = 1 /\ wr_arg = <<1, "s">> /\ wr_ret = "len"
    /\ current_led_state = 1 /\ led_value[0] /\ button_pressed
    /\ BetweenHandlers

\* C34: press_count is at most MAX_PRESSES in every state, also when the work
\* handler is late and presses go on being accepted after the 5th.
C34_CountBound == press_count \in 0 .. MAX_PRESSES

\* C35: current_led_state is one of 0, 1, 2, 3, 4 in every state, so that no query
\* renders "Unknown state".
C35_StateRange ==
    /\ current_led_state \in 0 .. 4
    /\ rd_ret[4] # "Unknown state"

C35_Witness ==
    /\ wk_pc = "clear" /\ wk_n = MAX_PRESSES /\ current_led_state = 0

\* C36: under fair scheduling, once presses stop the driver reaches and keeps a
\* state with press_count = 0, the timer not armed, and the work neither queued nor
\* running; and whenever the work is queued, the work handler later starts.
C36_EventualQuiescence ==
    /\ <>[](Quiescent /\ press_count = 0)
    /\ (work_pending ~> (wk_pc = "switch"))

C36_Witness ==
    /\ presses = MaxFairPresses /\ runs >= 1
    /\ Quiescent /\ press_count = 0 /\ current_led_state = 0

\* C37: the interrupt handler handles no press before button_probe has initialized
\* the timer and the work item and has written the lines off; mod_timer is never
\* executed before timer_setup and schedule_work never before INIT_WORK.
C37_InitializationOrder ==
    [][/\ (irq_pc = "idle" /\ irq_pc' = "store") => pb_pc = "done"
       /\ (irq_pc = "mod_timer" /\ irq_pc' # "mod_timer") => TimerInitialized
       /\ (sched_calls' = sched_calls + 1) => WorkInitialized]_vars

\* C38: when an event has been accepted before at tick L, a raw event at tick T whose
\* true elapsed time since L is less than half the range of the tick counter is
\* accepted if and only if that elapsed time is at least the debounce window, by the
\* button driver's time_before test and by the single-LED driver's unsigned
\* subtraction alike, whether or not the counter wrapped between L and T.
C38_DebounceAcrossWrap ==
    [][(accepted /\ RawEvent /\ elapsed < Wrap \div 2)
         => /\ (verdict' = "accepted") <=> (elapsed >= DebounceJiffies)
            /\ (~G2DebounceRejects(jiffies, last_irq_time)) <=> (elapsed >= DebounceJiffies)]_vars

\* an event is accepted at a tick T smaller than the debounce window, a second or
\* later one: the event accepted before it is at least the window older, so that
\* the counter wrapped past 0 between the two
C38_Witness ==
    /\ presses >= 2
    /\ irq_pc = "store"
    /\ verdict = "accepted"
    /\ last_irq_time = jiffies
    /\ jiffies < DebounceJiffies

\* C39: whenever no command of the LED driver, no dispatch and no reset is under way,
\* the status the LED driver records for each LED equals the level last written to
\* that LED's line, whoever wrote it.
C39_LedStatusAgreesWithLine ==
    (ld_pc = "idle" /\ wk_pc = "idle" /\ wr_pc = "idle")
        => \A i \in Leds : led_state[i] = led_value[i]

\* C40: in the single-LED toggle driver, whenever neither the interrupt handler nor a
\* user command is under way, led_state equals the level last written to the LED line.
C40_ToggleStateAgreesWithLine ==
    (g2_irq_pc = "idle" /\ g2_cmd_pc = "idle") => g2_led_state = g2_led_gpio

====
